---------------------------- MODULE Spec2Model ----------------------------
(***************************************************************************)
(* Hex-Do-Cube: the closed-form 16x16x16 Latin cube (generate_cube.py),    *)
(* its exhaustive verifier check_all, and the cached-puzzle generator      *)
(* (generate_cached_puzzle.py) that carves a verified cube and writes it.  *)
(*                                                                         *)
(* Three specifications share the variables:                               *)
(*   SpecCell    evaluates cell_value at every coordinate;                 *)
(*   SpecVerify  runs the assertions of check_all over a family of cubes;  *)
(*   Spec        runs generate_cached_puzzle from call to return.          *)
(***************************************************************************)
EXTENDS Integers, Sequences, FiniteSets

VARIABLES
    pc,            \* position in generate_cached_puzzle
    difficulty,    \* its argument
    cube,          \* its local: the cube built by generate_full_cube
    check_result,  \* how the call check_all() ended
    cells,         \* apply_difficulty's first result
    given_count,   \* apply_difficulty's second result
    empty_count,   \* apply_difficulty's third result
    file,          \* the document at output_path
    retval,        \* the value generate_cached_puzzle returned
    probe,         \* SpecCell: the coordinate evaluated and the value returned
    examined,      \* SpecVerify: the cube the assertions run over
    verdict        \* SpecVerify: how the assertions ended

vars == <<pc, difficulty, cube, check_result, cells, given_count, empty_count,
          file, retval, probe, examined, verdict>>

\* Python's None, as a value.
None == "None"

\* A variable that is not bound yet holds Nothing; once bound to v, Some(v).
Nothing == <<>>
Some(v) == <<v>>

-----------------------------------------------------------------------------
(* Python integer operators used by cell_value.                            *)

\* The block edge: divmod(x, 4) and range(0, 16, 4).
B == 4

\* range(n)
Range(n) == 0 .. (n - 1)

\* a ^ b on non-negative integers.
RECURSIVE BitXor(_, _)
BitXor(a, b) ==
    IF a = 0 /\ b = 0 THEN 0
    ELSE (((a % 2) + (b % 2)) % 2) + 2 * BitXor(a \div 2, b \div 2)

\* a | b on non-negative integers.
RECURSIVE BitOr(_, _)
BitOr(a, b) ==
    IF a = 0 /\ b = 0 THEN 0
    ELSE (IF (a % 2) = 1 \/ (b % 2) = 1 THEN 1 ELSE 0) + 2 * BitOr(a \div 2, b \div 2)

\* a << n.
RECURSIVE ShiftLeft(_, _)
ShiftLeft(a, n) == IF n = 0 THEN a ELSE ShiftLeft(2 * a, n - 1)

\* divmod(x, 4) as <<quotient, remainder>>.
DivMod(x, d) == <<x \div d, x % d>>

-----------------------------------------------------------------------------
(* generate_cube.py                                                        *)

HEX == <<"0", "1", "2", "3", "4", "5", "6", "7",
         "8", "9", "a", "b", "c", "d", "e", "f">>

SYMS == Range(16)

\* A slip in the high digit: vz left out of us.
cell_value_no_vz(r, c, z) ==
    LET ur == DivMod(r, B)[1]
        vr == DivMod(r, B)[2]
        uc == DivMod(c, B)[1]
        vc == DivMod(c, B)[2]
        uz == DivMod(z, B)[1]
        vz == DivMod(z, B)[2]
        us == BitXor(BitXor(vr, uc), uz)
        vs == BitXor(BitXor(ur, vc), vz)
    IN  BitOr(ShiftLeft(us, 2), vs)

\* A slip in the low digit: vr used where ur belongs.
cell_value_vr_twice(r, c, z) ==
    LET ur == DivMod(r, B)[1]
        vr == DivMod(r, B)[2]
        uc == DivMod(c, B)[1]
        vc == DivMod(c, B)[2]
        uz == DivMod(z, B)[1]
        vz == DivMod(z, B)[2]
        us == BitXor(BitXor(BitXor(vr, uc), uz), vz)
        vs == BitXor(BitXor(vr, vc), vz)
    IN  BitOr(ShiftLeft(us, 2), vs)

cell_value(r, c, z) ==
    LET ur == DivMod(r, B)[1]
        vr == DivMod(r, B)[2]
        uc == DivMod(c, B)[1]
        vc == DivMod(c, B)[2]
        uz == DivMod(z, B)[1]
        vz == DivMod(z, B)[2]
        us == BitXor(BitXor(BitXor(vr, uc), uz), vz)
        vs == BitXor(BitXor(ur, vc), vz)
    IN  BitOr(ShiftLeft(us, 2), vs)

\* check_all, lines 47-49: cube[z][r][c].
CheckedCube ==
    [z \in Range(16) |-> [r \in Range(16) |-> [c \in Range(16) |-> cell_value(r, c, z)]]]

\* range(0, 16, 4)
BlockOrigins == {b \in Range(16) : (b % B) = 0}

\* range(b, b + 4)
BlockSpan(b) == b .. (b + B - 1)

\* Lines 52-54: beams.
Beams(cb) ==
    \A r \in Range(16) : \A c \in Range(16) :
        {cb[z][r][c] : z \in Range(16)} = SYMS

\* Lines 57-66 without the blocks of lines 63-66.
XYFaces_no_blocks(cb) ==
    \A z \in Range(16) :
        LET g == cb[z] IN
        /\ \A r \in Range(16) : {g[r][c] : c \in Range(16)} = SYMS
        /\ \A c \in Range(16) : {g[r][c] : r \in Range(16)} = SYMS

\* Lines 57-66: XY faces (fixed z): rows, columns, blocks.
XYFaces(cb) ==
    \A z \in Range(16) :
        LET g == cb[z] IN
        /\ \A r \in Range(16) : {g[r][c] : c \in Range(16)} = SYMS
        /\ \A c \in Range(16) : {g[r][c] : r \in Range(16)} = SYMS
        /\ \A br \in BlockOrigins : \A bc \in BlockOrigins :
               {g[r][c] : r \in BlockSpan(br), c \in BlockSpan(bc)} = SYMS

\* Lines 69-79: XZ faces (fixed c): rows (vary z), columns (vary r), blocks in r,z.
XZFaces(cb) ==
    \A c \in Range(16) :
        /\ \A r \in Range(16) : {cb[z][r][c] : z \in Range(16)} = SYMS
        /\ \A z \in Range(16) : {cb[z][r][c] : r \in Range(16)} = SYMS
        /\ \A br \in BlockOrigins : \A bz \in BlockOrigins :
               {cb[z][r][c] : r \in BlockSpan(br), z \in BlockSpan(bz)} = SYMS

\* Lines 82-92: YZ faces (fixed r): rows (vary z), columns (vary c), blocks in c,z.
YZFaces(cb) ==
    \A r \in Range(16) :
        /\ \A c \in Range(16) : {cb[z][r][c] : z \in Range(16)} = SYMS
        /\ \A z \in Range(16) : {cb[z][r][c] : c \in Range(16)} = SYMS
        /\ \A bc \in BlockOrigins : \A bz \in BlockOrigins :
               {cb[z][r][c] : c \in BlockSpan(bc), z \in BlockSpan(bz)} = SYMS

\* What a call ends with: a normal return of None, or a raised exception.
\* A bare `assert` raises AssertionError with no arguments, so str(e) = "".
Returned(v) == [raised |-> FALSE, value |-> v]
Raised(type, args) == [raised |-> TRUE, type |-> type, args |-> args]

\* Lines 51-92: the assertions in order; the first that fails raises.
Assertions(cb) ==
    IF Beams(cb) /\ XYFaces(cb) /\ XZFaces(cb) /\ YZFaces(cb)
    THEN Returned(None)
    ELSE Raised("AssertionError", <<>>)

\* check_all(): build the cube, then run the assertions over it.
check_all == Assertions(CheckedCube)

-----------------------------------------------------------------------------
(* The assertions of check_all are a predicate on the cube they are run    *)
(* over. check_all itself only ever runs them over the cube of cell_value; *)
(* SpecVerify runs them over that cube and over the cubes other            *)
(* constructors would give: the cubes of the same linear form with up to   *)
(* MaxFlips of the twelve digit coefficients of (us, vs) flipped, and the  *)
(* constructed cube with one cell, of index at most MaxPoke on each axis,  *)
(* overwritten.                                                            *)

MaxFlips == 3
MaxPoke == 1

\* Coefficients of (ur, vr, uc, vc, uz, vz) in us, then in vs, as cell_value has them.
Coefficients == <<0, 1, 1, 0, 1, 1,   1, 0, 0, 1, 0, 1>>

XorTable == [a \in Range(16) |-> [b \in Range(16) |-> BitXor(a, b)]]

Flipped(fl) == [i \in 1 .. 12 |-> IF i \in fl THEN 1 - Coefficients[i] ELSE Coefficients[i]]

\* What the digits <<u, v>> of one axis add to the symbol: the axis' coefficients
\* are m[k + 1], m[k + 2] in us and m[k + 7], m[k + 8] in vs.
AxisPart(m, k, x) ==
    LET u == x \div B
        v == x % B
        us == XorTable[m[k + 1] * u][m[k + 2] * v]
        vs == XorTable[m[k + 7] * u][m[k + 8] * v]
    IN  B * us + vs

\* The symbol is the XOR of what the three axes add to it.
AxisParts(m) ==
    [R |-> [r \in Range(16) |-> AxisPart(m, 0, r)],
     C |-> [c \in Range(16) |-> AxisPart(m, 2, c)],
     Z |-> [z \in Range(16) |-> AxisPart(m, 4, z)]]

LinearCube(parts) ==
    [z \in Range(16) |-> [r \in Range(16) |-> [c \in Range(16) |->
        XorTable[XorTable[parts.R[r]][parts.C[c]]][parts.Z[z]]]]]

\* The constructed cube with the cell at p = <<r, c, z>> holding the next symbol.
Poked(p) ==
    [CheckedCube EXCEPT ![p[3]][p[1]][p[2]] = (@ + 1) % 16]

Defects ==
    {[kind |-> "linear", parts |-> AxisParts(Flipped(fl)), at |-> <<>>] :
        fl \in {s \in SUBSET (1 .. 12) : Cardinality(s) <= MaxFlips}}
    \cup
    {[kind |-> "poke", parts |-> <<>>, at |-> <<r, c, z>>] :
        r \in 0 .. MaxPoke, c \in 0 .. MaxPoke, z \in 0 .. MaxPoke}

CubeOf(d) == IF d.kind = "linear" THEN LinearCube(d.parts) ELSE Poked(d.at)

-----------------------------------------------------------------------------
(* generate_cached_puzzle.py                                               *)

\* Lines 23-27: cube[z][r][c].
generate_full_cube ==
    [z \in Range(16) |-> [r \in Range(16) |-> [c \in Range(16) |-> cell_value(r, c, z)]]]

(* A Python float is an IEEE-754 double: sign +, a 53-bit significand kept  *)
(* as hi * 2^26 + lo, and an exponent e, of value (hi * 2^26 + lo) * 2^(e - 52). *)
RECURSIVE Pow2(_)
Pow2(k) == IF k = 0 THEN 1 ELSE 2 * Pow2(k - 1)

RECURSIVE Log2(_)
Log2(n) == IF n <= 1 THEN 0 ELSE 1 + Log2(n \div 2)

\* The literals 0.70, 0.50 and 0.30 rounded to the nearest double.
Float070 == [exp |-> -1, hi |-> 93952409, lo |-> 40265318]
Float050 == [exp |-> -1, hi |-> 67108864, lo |-> 0]
Float030 == [exp |-> -2, hi |-> 80530636, lo |-> 53687091]

\* n * x for an int n that is a power of two: the product is exact.
IntTimesFloat(n, x) == [x EXCEPT !.exp = @ + Log2(n)]

\* int(x): truncation toward zero of a non-negative double below 2^31.
IntOfFloat(x) ==
    LET s == 52 - x.exp IN
    IF s > 52 THEN 0
    ELSE IF s >= 26 THEN x.hi \div Pow2(s - 26)
    ELSE x.hi * Pow2(26 - s) + (x.lo \div Pow2(s))

\* Lines 38-45 with the ratio of 'medium' pasted into the 'hard' branch.
given_ratio_hard_pasted(label) ==
    IF label = "easy" THEN Float070
    ELSE IF label = "medium" THEN Float050
    ELSE IF label = "hard" THEN Float050
    ELSE Float070

\* Lines 38-45 with the fallback branch defaulting to the ratio of 'medium'.
given_ratio_else_medium(label) ==
    IF label = "easy" THEN Float070
    ELSE IF label = "medium" THEN Float050
    ELSE IF label = "hard" THEN Float030
    ELSE Float050

\* Lines 38-45.
given_ratio(label) ==
    IF label = "easy" THEN Float070
    ELSE IF label = "medium" THEN Float050
    ELSE IF label = "hard" THEN Float030
    ELSE Float070

\* Lines 50-55: the (z, r, c) triples, z outermost; a Python list, here 1-based.
all_positions_listed ==
    [i \in 1 .. (16 * 16 * 16) |->
        <<(i - 1) \div (16 * 16), ((i - 1) \div 16) % 16, (i - 1) % 16>>]

(* random.shuffle permutes the list in place; any permutation can come out. *)
(* The outcomes drawn here are the permutations j -> stride * j + offset    *)
(* (mod the length) with an odd stride, which are bijections of the indices. *)
MaxStride == 5
MaxOffset == 1

Shuffles ==
    {<<a, b>> : a \in {k \in 1 .. MaxStride : (k % 2) = 1}, b \in 0 .. MaxOffset}

shuffle(list, sh) ==
    [j \in 1 .. Len(list) |-> list[((sh[1] * (j - 1) + sh[2]) % Len(list)) + 1]]

\* list[:n]
Prefix(list, n) == SubSeq(list, 1, IF n < Len(list) THEN n ELSE Len(list))

\* set(list)
SetOf(list) == {list[i] : i \in 1 .. Len(list)}

\* Lines 65-79 with the position written in the cube's own index order.
LoopBody_zrc(acc, pos, cb, given_positions) ==
    LET z == pos[1]
        r == pos[2]
        c == pos[3]
        value_int == cb[z][r][c]
        value_hex == HEX[value_int + 1]
    IN  IF pos \in given_positions
        THEN [acc EXCEPT
                 !.cells = Append(@, [position |-> <<z, r, c>>,
                                      value |-> value_hex,
                                      type |-> "given"]),
                 !.given_count = @ + 1]
        ELSE [acc EXCEPT !.empty_count = @ + 1]

\* Lines 65-79 with hidden cells stored as well, with no value.
LoopBody_keeps_hidden(acc, pos, cb, given_positions) ==
    LET z == pos[1]
        r == pos[2]
        c == pos[3]
        value_int == cb[z][r][c]
        value_hex == HEX[value_int + 1]
    IN  IF pos \in given_positions
        THEN [acc EXCEPT
                 !.cells = Append(@, [position |-> <<r, c, z>>,
                                      value |-> value_hex,
                                      type |-> "given"]),
                 !.given_count = @ + 1]
        ELSE [acc EXCEPT
                 !.cells = Append(@, [position |-> <<r, c, z>>,
                                      value |-> None,
                                      type |-> "editable"]),
                 !.empty_count = @ + 1]

\* Lines 65-79: one pass of the loop over all_positions.
LoopBody(acc, pos, cb, given_positions) ==
    LET z == pos[1]
        r == pos[2]
        c == pos[3]
        value_int == cb[z][r][c]
        value_hex == HEX[value_int + 1]
    IN  IF pos \in given_positions
        THEN [acc EXCEPT
                 !.cells = Append(@, [position |-> <<r, c, z>>,
                                      value |-> value_hex,
                                      type |-> "given"]),
                 !.given_count = @ + 1]
        ELSE [acc EXCEPT !.empty_count = @ + 1]

\* Lines 61-63: the accumulators before the loop.
LoopStart == [cells |-> <<>>, given_count |-> 0, empty_count |-> 0]

\* Lines 65-79: what the passes for list[lo], ..., list[hi], in that order, add
\* to the accumulators. A pass only appends and increments, so the passes of a
\* range are those of its first half followed by those of its second half.
RECURSIVE Loop(_, _, _, _, _)
Loop(list, lo, hi, cb, given_positions) ==
    IF lo > hi THEN LoopStart
    ELSE IF lo = hi THEN LoopBody(LoopStart, list[lo], cb, given_positions)
    ELSE LET mid == (lo + hi) \div 2
             first == Loop(list, lo, mid, cb, given_positions)
             second == Loop(list, mid + 1, hi, cb, given_positions)
         IN  [cells |-> first.cells \o second.cells,
              given_count |-> first.given_count + second.given_count,
              empty_count |-> first.empty_count + second.empty_count]

\* Lines 36-81, with the outcome sh of random.shuffle.
apply_difficulty(cb, label, sh) ==
    LET total_cells == 16 * 16 * 16
        target_given_count == IntOfFloat(IntTimesFloat(total_cells, given_ratio(label)))
        all_positions == shuffle(all_positions_listed, sh)
        given_positions == SetOf(Prefix(all_positions, target_given_count))
    IN  Loop(all_positions, 1, Len(all_positions), cb, given_positions)

-----------------------------------------------------------------------------
(* Specification Spec: one run of generate_cached_puzzle(difficulty).      *)

\* The labels a caller passes: the three known ones and some that are not.
Difficulties == {"easy", "medium", "hard", "expert", "Easy", ""}

\* datetime.utcnow(): the instants the clock may show when the document is built.
MaxClock == 1
Clock == 0 .. MaxClock

ProbeIdle == probe = Nothing
VerifyIdle == examined = Nothing /\ verdict = Nothing
PipelineIdle ==
    /\ difficulty = Nothing
    /\ cube = Nothing
    /\ check_result = Nothing
    /\ cells = Nothing
    /\ given_count = Nothing
    /\ empty_count = Nothing
    /\ file = Nothing
    /\ retval = Nothing

Init ==
    /\ pc = "step1"
    /\ \E label \in Difficulties : difficulty = Some(label)
    /\ cube = Nothing
    /\ check_result = Nothing
    /\ cells = Nothing
    /\ given_count = Nothing
    /\ empty_count = Nothing
    /\ file = Nothing
    /\ retval = Nothing
    /\ ProbeIdle
    /\ VerifyIdle

\* Lines 92-95 with the axes of the cube swapped when it is built.
Generate_transposed ==
    /\ pc = "step1"
    /\ cube' = Some([z \in Range(16) |-> [r \in Range(16) |-> [c \in Range(16) |->
                        cell_value(z, r, c)]]])
    /\ pc' = "step2"
    /\ UNCHANGED <<difficulty, check_result, cells, given_count, empty_count,
                   file, retval, probe, examined, verdict>>

\* Lines 92-95: Step 1.
Generate ==
    /\ pc = "step1"
    /\ cube' = Some(generate_full_cube)
    /\ pc' = "step2"
    /\ UNCHANGED <<difficulty, check_result, cells, given_count, empty_count,
                   file, retval, probe, examined, verdict>>

\* Lines 97-104 with the validation step commented out.
Validate_skipped ==
    /\ pc = "step2"
    /\ pc' = "step3"
    /\ UNCHANGED <<check_result, retval>>
    /\ UNCHANGED <<difficulty, cube, cells, given_count, empty_count,
                   file, probe, examined, verdict>>

\* Lines 97-104: Step 2; an AssertionError is caught and the run returns False.
Validate ==
    /\ pc = "step2"
    /\ check_result' = Some(check_all)
    /\ IF check_result'[1].raised /\ check_result'[1].type = "AssertionError"
       THEN retval' = Some(FALSE) /\ pc' = "returned"
       ELSE retval' = retval /\ pc' = "step3"
    /\ UNCHANGED <<difficulty, cube, cells, given_count, empty_count,
                   file, probe, examined, verdict>>

\* Lines 106-111: Step 3.
Carve ==
    /\ pc = "step3"
    /\ \E sh \in Shuffles :
          LET res == apply_difficulty(cube[1], difficulty[1], sh) IN
          /\ cells' = Some(res.cells)
          /\ given_count' = Some(res.given_count)
          /\ empty_count' = Some(res.empty_count)
    /\ pc' = "step4"
    /\ UNCHANGED <<difficulty, cube, check_result, file, retval,
                   probe, examined, verdict>>

\* Lines 113-129: Step 4, the document built and written to output_path.
Write ==
    /\ pc = "step4"
    /\ \E now \in Clock :
          file' = Some([version |-> 1,
                        difficulty |-> difficulty[1],
                        generatedAt |-> now,
                        cells |-> cells[1],
                        givenCellCount |-> given_count[1],
                        emptyCellCount |-> empty_count[1]])
    /\ pc' = "written"
    /\ UNCHANGED <<difficulty, cube, check_result, cells, given_count, empty_count,
                   retval, probe, examined, verdict>>

\* Lines 126-129: mkdir or write_text raises OSError, which nothing catches.
WriteFails ==
    /\ pc = "step4"
    /\ pc' = "raised"
    /\ UNCHANGED <<difficulty, cube, check_result, cells, given_count, empty_count,
                   file, retval, probe, examined, verdict>>

\* Lines 131-143.
ReturnTrue ==
    /\ pc = "written"
    /\ retval' = Some(TRUE)
    /\ pc' = "returned"
    /\ UNCHANGED <<difficulty, cube, check_result, cells, given_count, empty_count,
                   file, probe, examined, verdict>>

Next == Generate \/ Validate \/ Carve \/ Write \/ WriteFails \/ ReturnTrue

Spec == Init /\ [][Next]_vars

-----------------------------------------------------------------------------
(* Specification SpecCell: cell_value applied at a coordinate of [0,16)^3. *)

InitCell ==
    /\ pc = "probe"
    /\ PipelineIdle
    /\ VerifyIdle
    /\ \E r \in Range(16), c \in Range(16), z \in Range(16) :
          probe = [r |-> r, c |-> c, z |-> z, value |-> Nothing]

Evaluate ==
    /\ pc = "probe"
    /\ probe' = [probe EXCEPT !.value = Some(cell_value(probe.r, probe.c, probe.z))]
    /\ pc' = "probed"
    /\ UNCHANGED <<difficulty, cube, check_result, cells, given_count,
                   empty_count, file, retval, examined, verdict>>

NextCell == Evaluate

SpecCell == InitCell /\ [][NextCell]_vars

-----------------------------------------------------------------------------
(* Specification SpecVerify: the assertions of check_all run over a cube.  *)

InitVerify ==
    /\ pc = "verify"
    /\ PipelineIdle
    /\ ProbeIdle
    /\ \E d \in Defects : examined = Some(CubeOf(d))
    /\ verdict = Nothing

RunAssertions ==
    /\ pc = "verify"
    /\ verdict' = Some(Assertions(examined[1]))
    /\ pc' = "verified"
    /\ UNCHANGED <<difficulty, cube, check_result, cells, given_count,
                   empty_count, file, retval, probe, examined>>

NextVerify == RunAssertions

SpecVerify == InitVerify /\ [][NextVerify]_vars

-----------------------------------------------------------------------------
(* The lines and blocks of [0,16)^3, as sets of coordinates <<r, c, z>>.   *)

ZLines == {{<<r, c, k>> : k \in Range(16)} : r \in Range(16), c \in Range(16)}
RLines == {{<<k, c, z>> : k \in Range(16)} : c \in Range(16), z \in Range(16)}
CLines == {{<<r, k, z>> : k \in Range(16)} : r \in Range(16), z \in Range(16)}
Lines == ZLines \cup RLines \cup CLines

XYBlocks ==
    {{<<r, c, z>> : r \in BlockSpan(br), c \in BlockSpan(bc)} :
        z \in Range(16), br \in BlockOrigins, bc \in BlockOrigins}
XZBlocks ==
    {{<<r, c, z>> : r \in BlockSpan(br), z \in BlockSpan(bz)} :
        c \in Range(16), br \in BlockOrigins, bz \in BlockOrigins}
YZBlocks ==
    {{<<r, c, z>> : c \in BlockSpan(bc), z \in BlockSpan(bz)} :
        r \in Range(16), bc \in BlockOrigins, bz \in BlockOrigins}
Blocks == XYBlocks \cup XZBlocks \cup YZBlocks

\* The 16 cells of S hold every symbol exactly once.
IsPermutation(cb, S) ==
    /\ Cardinality(S) = 16
    /\ {cb[p[3]][p[1]][p[2]] : p \in S} = SYMS

\* The block origin of an index.
OriginOf(x) == x - (x % B)

-----------------------------------------------------------------------------
(* Claims about cell_value, under SpecCell.                                *)

\* C1: every axis-aligned line of 16 cells of the cube defined by cell_value holds
\* each symbol 0..15 exactly once, whichever of the three axes varies, and every
\* value is in 0..15. Stated of the three lines through the evaluated coordinate.
C1_LinesArePermutations ==
    pc = "probed" =>
        /\ probe.value[1] \in Range(16)
        /\ {cell_value(probe.r, probe.c, k) : k \in Range(16)} = SYMS
        /\ {cell_value(k, probe.c, probe.z) : k \in Range(16)} = SYMS
        /\ {cell_value(probe.r, k, probe.z) : k \in Range(16)} = SYMS

C1_Witness ==
    /\ pc = "probed"
    /\ probe = [r |-> 4, c |-> 0, z |-> 0, value |-> Some(1)]

\* C2: every aligned 4x4 block of every face, in all three orientations, holds each
\* symbol exactly once. Stated of the three blocks through the evaluated coordinate.
C2_BlocksArePermutations ==
    pc = "probed" =>
        LET br == OriginOf(probe.r)
            bc == OriginOf(probe.c)
            bz == OriginOf(probe.z)
        IN  /\ {cell_value(r, c, probe.z) : r \in BlockSpan(br), c \in BlockSpan(bc)} = SYMS
            /\ {cell_value(r, probe.c, z) : r \in BlockSpan(br), z \in BlockSpan(bz)} = SYMS
            /\ {cell_value(probe.r, c, z) : c \in BlockSpan(bc), z \in BlockSpan(bz)} = SYMS

C2_Witness ==
    /\ pc = "probed"
    /\ probe = [r |-> 15, c |-> 15, z |-> 15, value |-> Some(3)]

-----------------------------------------------------------------------------
(* Claims about the assertions of check_all, under SpecVerify.             *)

\* What an error report would name: the family, the slice and the line or block.
Families == {"beam", "xy-row", "xy-column", "xy-block", "xz-row", "xz-column",
             "xz-block", "yz-row", "yz-column", "yz-block"}
Reports == [family : Families, slice : Range(16), line : Range(16)]

C8_ChecksAreExhaustive ==
    pc = "verified" =>
        /\ Cardinality(Lines) = 768
        /\ Cardinality(Blocks) = 768
        /\ (~verdict[1].raised) <=>
               (\A S \in Lines \cup Blocks : IsPermutation(examined[1], S))

\* A cube whose lines and whose XZ and YZ blocks are all permutations, and that is
\* rejected: only blocks of XY faces are broken.
C8_Witness ==
    /\ pc = "verified"
    /\ verdict[1].raised
    /\ \A S \in Lines \cup XZBlocks \cup YZBlocks : IsPermutation(examined[1], S)

-----------------------------------------------------------------------------
(* Claims about generate_cached_puzzle and apply_difficulty, under Spec.   *)

Passed(result) == result # Nothing /\ ~result[1].raised

\* C3: cells are carved and the file is written only after check_all has returned
\* without raising; when it raises the run returns False with nothing carved and
\* nothing written; the run returns True only once the file is written.
C3_OutputOnlyAfterVerification ==
    /\ (cells # Nothing \/ file # Nothing) => Passed(check_result)
    /\ (check_result # Nothing /\ check_result[1].raised) =>
           (pc = "returned" /\ retval = Some(FALSE) /\ cells = Nothing /\ file = Nothing)
    /\ retval = Some(FALSE) => (cells = Nothing /\ file = Nothing)
    /\ retval = Some(TRUE) => (file # Nothing /\ Passed(check_result))

C3_Witness ==
    /\ pc = "returned"
    /\ retval = Some(TRUE)
    /\ file # Nothing
    /\ check_result = Some(Returned(None))

\* C5: whatever the shuffle gives, the given-cell count is 2867 for 'easy', 2048 for
\* 'medium' and 1228 for 'hard'.
C5_GivenCountByDifficulty ==
    given_count # Nothing =>
        /\ difficulty = Some("easy") => given_count = Some(2867)
        /\ difficulty = Some("medium") => given_count = Some(2048)
        /\ difficulty = Some("hard") => given_count = Some(1228)

C5_Witness ==
    /\ pc = "step4"
    /\ difficulty = Some("hard")
    /\ given_count = Some(1228)

\* C6: no two emitted cells share a position, given_count is the number of emitted
\* cells (hidden cells are not emitted), and given_count + empty_count = 4096.
C6_CountsAndDistinctPositions ==
    cells # Nothing =>
        LET cs == cells[1] IN
        /\ Cardinality({cs[i].position : i \in 1 .. Len(cs)}) = Len(cs)
        /\ given_count[1] = Len(cs)
        /\ \A i \in 1 .. Len(cs) : cs[i].type = "given"
        /\ given_count[1] + empty_count[1] = 4096

C6_Witness ==
    /\ pc = "step4"
    /\ difficulty = Some("medium")
    /\ Len(cells[1]) = 2048
    /\ empty_count = Some(2048)

\* C7: every emitted cell has position <<row, column, layer>>, the value
\* HEX[cell_value(row, column, layer)] and the type 'given'.
C7_CellsInRowColumnLayerOrder ==
    cells # Nothing =>
        \A i \in 1 .. Len(cells[1]) :
            LET cell == cells[1][i]
                p == cell.position
            IN  /\ Len(p) = 3
                /\ cell.value = HEX[cell_value(p[1], p[2], p[3]) + 1]
                /\ cell.type = "given"

\* The cell of row 1, column 2, layer 3 is emitted with its symbol 9; the cell of
\* the transposed coordinate would hold 7.
C7_Witness ==
    /\ cells # Nothing
    /\ \E i \in 1 .. Len(cells[1]) :
          cells[1][i] = [position |-> <<1, 2, 3>>, value |-> "9", type |-> "given"]

\* C9: a label other than 'easy', 'medium' and 'hard' is accepted and carved as
\* 'easy' is: 2867 given and 1229 empty cells.
C9_UnknownLabelFallsBackToEasy ==
    (difficulty # Nothing /\ difficulty[1] \notin {"easy", "medium", "hard"}) =>
        /\ pc = "step4" =>
               (given_count = Some(2867) /\ empty_count = Some(1229)
                   /\ Len(cells[1]) = 2867)
        /\ given_count # Nothing => given_count = Some(2867)
        /\ empty_count # Nothing => empty_count = Some(1229)

C9_Witness ==
    /\ pc = "step4"
    /\ difficulty = Some("expert")
    /\ given_count = Some(2867)
    /\ empty_count = Some(1229)

\* C10: from generation to carving, the cube held by generate_cached_puzzle is, cell
\* for cell, the cube check_all builds and checks: both hold cell_value(r, c, z) at
\* [z][r][c].
C10_CarvedCubeIsCheckedCube ==
    pc \in {"step2", "step3"} =>
        /\ cube # Nothing
        /\ \A z \in Range(16) : \A r \in Range(16) : \A c \in Range(16) :
               /\ cube[1][z][r][c] = cell_value(r, c, z)
               /\ cube[1][z][r][c] = CheckedCube[z][r][c]

C10_Witness ==
    /\ pc = "step3"
    /\ check_result = Some(Returned(None))
    /\ cube[1][3][1][2] = 9
    /\ CheckedCube[3][1][2] = 9

=============================================================================
